---- MODULE Spec2Model ----
\* Model of the batch fraud-flagging scripts under src/ibmb_script: the
\* historical merge (update_historical), the velocity detectors (the flag_
\* functions) and the flag reconciliation (the update_flag functions),
\* together with the way each of them writes its parquet files.
\*
\* A parquet file is a record [exists, complete, cols, rows]: cols is the
\* set of flag columns of its schema, rows the sequence of its rows, and
\* complete is FALSE while a writer has opened the path and has not yet
\* finished writing it.  A row is [ref, acct, ts, amt, flags] with flags a
\* function from the frame's flag columns to 0..1.
EXTENDS Integers, Sequences, FiniteSets, TLC

\* ----------------------------------------------------------------- bounds
\* reference ids of the transactions the ingestion can deliver
MaxRef == 3
\* rows in one concatenated incoming batch
MaxBatch == 2
\* temporary files that may be left behind before runs stop being started
MaxTmp == 1
\* runs started in one behaviour
MaxRuns == 4
\* rows of a detector input in the detector-only specification
MaxRecs == 3
\* largest timestamp of a detector input in the detector-only specification
MaxTs == 3

Refs == 1..MaxRef

\* The transaction a reference id names: its attributes never change.
AcctOf(r) == (r + 1) \div 2
TsOf(r) == r - 1
AmtOf(r) == 1 + (r % 2)

\* Length of a calendar day in time units (dt.date() of a timestamp).
DayLen == 2
DateOf(t) == t \div DayLen

\* pl.col(transaction_date).dt.hour() of a timestamp
HourOf(t) == t % DayLen
Hours == 0..(DayLen - 1)

\* time_range_start and time_range_end of params_tf_online_50mio_e
TimeRanges == {[start |-> s, end |-> e] : s \in Hours, e \in Hours}
AllDay == [start |-> 0, end |-> DayLen - 1]

\* cutoff_date = now - n_days, supplied by the clock
Cutoffs == {0, 1}

\* ------------------------------------------------------------- frames
NoFile == [exists |-> FALSE, complete |-> FALSE, cols |-> {}, rows |-> <<>>]
PartialFile == [exists |-> TRUE, complete |-> FALSE, cols |-> {}, rows |-> <<>>]
File(cols, rows) == [exists |-> TRUE, complete |-> TRUE, cols |-> cols, rows |-> rows]
Readable(f) == f.exists /\ f.complete

Row(r, fl) == [ref |-> r, acct |-> AcctOf(r), ts |-> TsOf(r), amt |-> AmtOf(r), flags |-> fl]

RefsOf(rows) == {rows[i].ref : i \in DOMAIN rows}

\* pl.lit(0).cast(pl.Int8).alias(col) for every col of `missing`
WithColumnsZero(rows, missing) ==
  [i \in DOMAIN rows |->
     [rows[i] EXCEPT !.flags =
        [c \in (DOMAIN rows[i].flags) \cup missing |->
           IF c \in missing THEN 0 ELSE rows[i].flags[c]]]]

\* df.drop(cols, strict=False)
DropCols(rows, cols) ==
  [i \in DOMAIN rows |->
     [rows[i] EXCEPT !.flags = [c \in (DOMAIN rows[i].flags) \ cols |-> rows[i].flags[c]]]]

\* a join that keeps every row of the left frame
KeepAll(left, right) == left

\* left.join(right, on=no_referensi, how="anti")
AntiJoin(left, right) == SelectSeq(left, LAMBDA x : x.ref \notin RefsOf(right))

\* lf.limit(1).collect().height == 0
is_empty(rows) == Len(rows) = 0

\* df.sort(by=[transaction_date, account_number]): a stable insertion sort
KeyLeq(a, b) == a.ts < b.ts \/ (a.ts = b.ts /\ a.acct <= b.acct)

RECURSIVE InsertSorted(_, _)
InsertSorted(x, s) ==
  IF s = <<>> THEN <<x>>
  ELSE IF KeyLeq(s[Len(s)], x) THEN Append(s, x)
  ELSE Append(InsertSorted(x, SubSeq(s, 1, Len(s) - 1)), s[Len(s)])

RECURSIVE SortRows(_)
SortRows(s) ==
  IF s = <<>> THEN <<>>
  ELSE InsertSorted(s[Len(s)], SortRows(SubSeq(s, 1, Len(s) - 1)))

\* ---------------------------------------------------------- configuration
\* Which copy of the scripts runs: ccw (src/ibmb_script/ccw), qr
\* (pembayaran/qr, copied by pembelian/pulsa) or ewallet (e_wallet).
Families == {"ccw", "qr", "ewallet"}

\* historical.flag_col of the family's configuration (a list of column names)
HistFlagCols(fam) == IF fam = "ccw" THEN {"flag_ccw"} ELSE {"flag_10min", "flag_5mio"}

AllFlagCols == {"flag_ccw", "flag_10min", "flag_5mio", "flag_50mio_early"}

\* flag_col as the configuration gives it: one column name (a str) or a list
\* of column names
StrOf(name) == [kind |-> "str", names |-> {name}]
ListOf(names) == [kind |-> "list", names |-> names]

\* the characters of a column name, in order: what `for col in flag_col`
\* yields when flag_col is a str
CharsOf(name) ==
  IF name = "flag_ccw" THEN <<"f", "l", "a", "g", "_", "c", "c", "w">>
  ELSE IF name = "flag_10min" THEN <<"f", "l", "a", "g", "_", "1", "0", "m", "i", "n">>
  ELSE <<"f", "l", "a", "g", "_", "5", "m", "i", "o">>

\* a list of the column names of a set, in some order
RECURSIVE SeqOfSet(_)
SeqOfSet(S) ==
  IF S = {} THEN <<>>
  ELSE LET x == CHOOSE y \in S : TRUE IN <<x>> \o SeqOfSet(S \ {x})

\* the items `for col in flag_col` yields
IterFlagCol(d) ==
  IF d.kind = "str" THEN CharsOf(CHOOSE n \in d.names : TRUE) ELSE SeqOfSet(d.names)

\* with_columns refuses two expressions with the same output name
HasDuplicates(s) == \E i, j \in DOMAIN s : i # j /\ s[i] = s[j]

\* Concatenated daily files: every sequence of at most MaxBatch deliverable
\* transactions (nothing in the scripts removes a repeated reference id).
Batches == UNION {[1..n -> Refs] : n \in 0..MaxBatch}

\* pl.concat(dataframes).sort(...), then the configured flag columns added as 0
DailyFrame(batch, flagCols) ==
  WithColumnsZero(SortRows([i \in DOMAIN batch |-> Row(batch[i], <<>>)]), flagCols)

\* vertical concat of two frames: polars refuses frames of different schemas
SameSchema(colsA, colsB) == colsA = colsB

\* ------------------------------------------------------- velocity detector
\* every pair of a row of `left` and a row of `right`, in join order
Cross(left, right) ==
  LET m == Len(right)
  IN [k \in 1..(Len(left) * m) |-> <<left[((k - 1) \div m) + 1], right[((k - 1) % m) + 1]>>]

\* a date filter that also leaves out the rows a stored flag marks
filter_unflagged(rows, cutoff) ==
  SelectSeq(rows, LAMBDA x : DateOf(x.ts) >= cutoff /\ \A c \in DOMAIN x.flags : x.flags[c] = 0)

\* filter_date: transaction_date.dt.date() >= cutoff_date
filter_date(rows, cutoff) == SelectSeq(rows, LAMBDA x : DateOf(x.ts) >= cutoff)

\* df.sort(transaction_date_col): stable, by timestamp only
RECURSIVE InsertByTs(_, _)
InsertByTs(x, s) ==
  IF s = <<>> THEN <<x>>
  ELSE IF s[Len(s)].ts <= x.ts THEN Append(s, x)
  ELSE Append(InsertByTs(x, SubSeq(s, 1, Len(s) - 1)), s[Len(s)])

RECURSIVE SortByTs(_)
SortByTs(s) ==
  IF s = <<>> THEN <<>>
  ELSE InsertByTs(s[Len(s)], SortByTs(SubSeq(s, 1, Len(s) - 1)))

\* the timestamps of one account, in frame order (group_by=account_number)
GroupTimes(rows, acct) ==
  LET g == SelectSeq(rows, LAMBDA x : x.acct = acct)
  IN [k \in DOMAIN g |-> g[k].ts]

\* position of row i inside its account's group
PosInGroup(rows, i) == Cardinality({k \in 1..i : rows[k].acct = rows[i].acct})

\* rolling() needs the index column sorted inside every group
SortedInGroups(rows) ==
  \A i, j \in DOMAIN rows :
     (i < j /\ rows[i].acct = rows[j].acct) => rows[i].ts <= rows[j].ts

\* a window that keeps the row exactly W before the anchor (closed="both")
WindowStartClosed(time, i, W) == Cardinality({k \in 1..i : time[k] < time[i] - W}) + 1

\* The window rolling(period=W) gives the row at position i of a sorted
\* group: it starts at the first position whose time is after time[i] - W
\* and ends after the last position whose time is not after time[i]
\* (closed="right"; rows sharing the timestamp are consumed).
WindowStart(time, i, W) == Cardinality({k \in 1..i : time[k] <= time[i] - W}) + 1
WindowEnd(time, i) ==
  i + Cardinality({k \in (i + 1)..Len(time) : \A j \in (i + 1)..k : time[j] <= time[i]})
RollingLen(time, i, W) == WindowEnd(time, i) - WindowStart(time, i, W) + 1

\* df.rolling(index_column, period, group_by).agg(pl.len())
Rolling(rows, W) ==
  [i \in DOMAIN rows |->
     [acct |-> rows[i].acct, ts |-> rows[i].ts,
      rolling_count |-> RollingLen(GroupTimes(rows, rows[i].acct), PosInGroup(rows, i), W)]]

\* .unique(subset=[no_referensi]): one row for each reference id
RECURSIVE UniqueByRef(_)
UniqueByRef(s) ==
  IF s = <<>> THEN <<>>
  ELSE LET front == UniqueByRef(SubSeq(s, 1, Len(s) - 1))
       IN IF s[Len(s)].ref \in RefsOf(front) THEN front ELSE Append(front, s[Len(s)])

\* with_columns(pl.lit(1).cast(pl.Int8).alias(flag_col))
WithFlagOne(rows, flag_col) ==
  [i \in DOMAIN rows |->
     [rows[i] EXCEPT !.flags =
        [c \in (DOMAIN rows[i].flags) \cup {flag_col} |->
           IF c = flag_col THEN 1 ELSE rows[i].flags[c]]]]

\* the marking interval with its start left out
InMarkingIntervalOpen(ts, t_start, t_end) == ts > t_start /\ ts <= t_end

\* (transaction_date >= t_start) & (transaction_date <= transaction_date_right)
InMarkingInterval(ts, t_start, t_end) == ts >= t_start /\ ts <= t_end

\* The count-based burst computation of flag_ccw, flag_10min and
\* flag_tf_online_10min on the frame d: window W, threshold T, marking span M.
CountBurst(d, W, T, M) ==
  LET df_rolling == Rolling(d, W)
      joined == SelectSeq(Cross(d, df_rolling),
                          LAMBDA p : p[1].acct = p[2].acct /\ p[1].ts = p[2].ts)
      df_with_rolling == [k \in DOMAIN joined |->
                            [row |-> joined[k][1], rolling_count |-> joined[k][2].rolling_count]]
      hot == SelectSeq(df_rolling, LAMBDA x : x.rolling_count >= T)
      burst_end == [k \in DOMAIN hot |->
                      [acct |-> hot[k].acct, ts |-> hot[k].ts, t_start |-> hot[k].ts - M]]
      with_burst == SelectSeq(Cross(df_with_rolling, burst_end),
                              LAMBDA p : p[1].row.acct = p[2].acct)
      inside == SelectSeq(with_burst,
                          LAMBDA p : InMarkingInterval(p[1].row.ts, p[2].t_start, p[2].ts))
  IN [df_with_rolling |-> df_with_rolling,
      burst_end |-> burst_end,
      marked |-> [k \in DOMAIN inside |-> inside[k][1].row]]

RECURSIVE SumAmtR(_)
SumAmtR(pairs) ==
  IF pairs = <<>> THEN 0
  ELSE pairs[Len(pairs)][2].amt + SumAmtR(SubSeq(pairs, 1, Len(pairs) - 1))

\* The value-sum computation of the flag_*_5mio / 50mio detectors on the
\* frame d: lookback L, threshold T.
ValueBurst(d, L, T) ==
  LET df_rolled == SelectSeq(Cross(d, d),
                             LAMBDA p : /\ p[1].acct = p[2].acct
                                        /\ p[2].ts >= p[1].ts - L
                                        /\ p[2].ts <= p[1].ts)
      df_sums == [r \in RefsOf(d) |->
                    SumAmtR(SelectSeq(df_rolled, LAMBDA p : p[1].ref = r))]
      df_flagged_accounts == SelectSeq(df_rolled, LAMBDA p : df_sums[p[1].ref] >= T)
      keys == {<<df_flagged_accounts[k][1].acct, df_flagged_accounts[k][1].ref>> :
                 k \in DOMAIN df_flagged_accounts}
  IN [df_rolled |-> df_rolled,
      df_sums |-> df_sums,
      keys |-> keys,
      flag_only |-> SelectSeq(d, LAMBDA x : <<x.acct, x.ref>> \in keys)]

\* ------------------------------------------------------------------ state
VARIABLES
  family,    \* which copy of the scripts this store belongs to
  hist,      \* the file at hist_path (the Historical Store)
  daily,     \* the daily flag batch file at each rule's output_path
  tmp,       \* the temporary file of the run in progress (hist_path.<uuid>.tmp)
  orphans,   \* temporary files left behind by runs that did not rename them
  pc,        \* position of the run in progress
  run,       \* locals of the run in progress
  log,       \* the last message the run logged
  done,      \* the run that ended last
  res,       \* the frames the last detector run computed
  runs,      \* runs started so far
  prev,      \* the run that ended before the last one
  designator, \* historical.flag_col of the configuration the scripts run with
  peer,      \* a second run, started while the first is in progress
  dirs,      \* the directories of hist_path and of output_path in the configuration
  hist0,     \* the file at hist_path before the first run
  hours      \* time_range_start and time_range_end of the configuration

vars == <<family, hours, designator, peer, dirs, hist0, hist, daily, tmp, orphans, pc, run, log, done, res, runs, prev>>

\* hist_path and output_path come from the configuration file: they lie in
\* one directory or in two
Dirs == {"dir_a", "dir_b"}
OneDir == [hist |-> "dir_a", out |-> "dir_a"]
Configured == {[hist |-> "dir_a", out |-> d] : d \in Dirs}

\* tmp_path = f"{hist_path}.{uuid.uuid4().hex}.tmp": beside hist_path
TmpDir == dirs.hist

\* the directory of the path a run writes
DestDir(target) == IF target = "hist" THEN dirs.hist ELSE dirs.out

NoRun == [op |-> "none", target |-> "none", content |-> NoFile, again |-> FALSE,
          daily_df |-> <<>>, pre |-> NoFile, col |-> "none", cutoff |-> 0]

Res(kind, d, W, T, M, rolling, bursts, sums, keys, out) ==
  [kind |-> kind, d |-> d, W |-> W, T |-> T, M |-> M, rolling |-> rolling,
   bursts |-> bursts, sums |-> sums, keys |-> keys, out |-> out]
NoRes == Res("none", <<>>, 0, 0, 0, <<>>, <<>>, <<>>, {}, <<>>)
ErrRes(d) == Res("error", d, 0, 0, 0, <<>>, <<>>, <<>>, {}, <<>>)

\* The e_wallet store is built by a merge that is not part of these sources:
\* an e_wallet behaviour starts from a store that merge has left, and from
\* the flag batches the e_wallet detectors have left at their output paths.
EwalletStores ==
  {File(HistFlagCols("ewallet"), DailyFrame(b, HistFlagCols("ewallet"))) :
     b \in {<<1, 2>>, <<1, 2, 3>>}}
EwalletBatches(flag_col) ==
  {NoFile} \cup {File({flag_col}, WithFlagOne(DailyFrame(b, {}), flag_col)) : b \in {<<2>>, <<1, 2>>}}

NoDone == [op |-> "none", ok |-> FALSE, wrote |-> FALSE, col |-> "none", cutoff |-> 0,
           batch |-> <<>>]

\* no second run
NoPeer == [pc |-> "idle", col |-> "none", pre |-> NoFile, content |-> NoFile, tmp |-> NoFile,
           wrote |-> FALSE]

InitFiles ==
  IF family = "ewallet"
  THEN /\ hist \in EwalletStores
       /\ \E f \in EwalletBatches("flag_10min"), g \in EwalletBatches("flag_5mio") :
            daily = [c \in AllFlagCols |->
                       IF c = "flag_10min" THEN f ELSE IF c = "flag_5mio" THEN g ELSE NoFile]
  ELSE /\ hist = NoFile
       /\ daily = [c \in AllFlagCols |-> NoFile]

Init ==
  /\ family \in Families
  /\ designator = ListOf(HistFlagCols(family))
  /\ InitFiles
  /\ tmp = NoFile
  /\ orphans = 0
  /\ pc = "idle"
  /\ run = NoRun
  /\ log = "start"
  /\ done = NoDone
  /\ res = NoRes
  /\ runs = 0
  /\ prev = NoDone
  /\ peer = NoPeer
  /\ hist0 = hist
  /\ dirs = OneDir
  /\ hours = AllDay

\* A run may start when none is in progress.
CanStart == pc = "idle" /\ orphans < MaxTmp /\ runs < MaxRuns

\* a run that ends by putting an empty store at hist_path when none is there
EndRunCreatingStore(op, ok, msg, col, cutoff, r) ==
  /\ pc' = "idle"
  /\ run' = NoRun
  /\ log' = msg
  /\ done' = [op |-> op, ok |-> ok, wrote |-> FALSE, col |-> col, cutoff |-> cutoff,
              batch |-> <<>>]
  /\ prev' = done
  /\ res' = r
  /\ runs' = runs + 1
  /\ hist' = IF hist.exists THEN hist ELSE File(HistFlagCols(family), <<>>)
  /\ UNCHANGED <<family, hours, designator, peer, dirs, hist0, daily, tmp, orphans>>

\* The run ends without having written anything.
EndRun(op, ok, msg, col, cutoff, r) ==
  /\ pc' = "idle"
  /\ run' = NoRun
  /\ log' = msg
  /\ done' = [op |-> op, ok |-> ok, wrote |-> FALSE, col |-> col, cutoff |-> cutoff,
              batch |-> <<>>]
  /\ prev' = done
  /\ res' = r
  /\ runs' = runs + 1
  /\ UNCHANGED <<family, hours, designator, peer, dirs, hist0, hist, daily, tmp, orphans>>

\* tmp_path = f"{hist_path}.{uuid4().hex}.tmp"; write_parquet(tmp_path); os.replace
BeginAtomicWrite(op, target, content, daily_df, col, cutoff, r) ==
  /\ pc' = "write_tmp"
  /\ run' = [op |-> op, target |-> target, content |-> content, again |-> FALSE,
             daily_df |-> daily_df, pre |-> hist, col |-> col, cutoff |-> cutoff]
  /\ log' = "saving"
  /\ res' = r
  /\ runs' = runs + 1
  /\ UNCHANGED <<family, hours, designator, peer, dirs, hist0, hist, daily, tmp, orphans, done, prev>>

\* write_parquet(path) straight onto the destination
BeginDirectWrite(op, target, content, again, daily_df, col, cutoff, r) ==
  /\ pc' = "write_direct"
  /\ run' = [op |-> op, target |-> target, content |-> content, again |-> again,
             daily_df |-> daily_df, pre |-> hist, col |-> col, cutoff |-> cutoff]
  /\ log' = "saving"
  /\ res' = r
  /\ runs' = runs + 1
  /\ UNCHANGED <<family, hours, designator, peer, dirs, hist0, hist, daily, tmp, orphans, done, prev>>

\* a store that would keep the flags of both files
MergeOnReplace(old, new) ==
  IF Readable(old) /\ Readable(new) /\ Len(old.rows) = Len(new.rows)
  THEN File(new.cols,
            [i \in DOMAIN new.rows |->
               [new.rows[i] EXCEPT !.flags =
                  [c \in DOMAIN new.rows[i].flags |->
                     IF old.rows[i].flags[c] = 1 THEN 1 ELSE new.rows[i].flags[c]]]])
  ELSE new

\* os.replace(tmp_path, hist_path): the file at hist_path becomes the
\* temporary file, whatever was there
os_replace(old, new) == new

SetTarget(target, f) ==
  IF target = "hist"
  THEN hist' = f /\ daily' = daily
  ELSE daily' = [daily EXCEPT ![target] = f] /\ hist' = hist

TargetFile(target) == IF target = "hist" THEN hist ELSE daily[target]

\* final_df.collect().write_parquet(tmp_path, ...) completes
WriteTmp ==
  /\ pc = "write_tmp"
  /\ tmp' = run.content
  /\ pc' = "rename"
  /\ UNCHANGED <<family, hours, designator, peer, dirs, hist0, hist, daily, orphans, run, log, done, res, runs, prev>>

\* os.replace(tmp_path, target)
Rename ==
  /\ pc = "rename"
  /\ SetTarget(run.target, os_replace(TargetFile(run.target), tmp))
  /\ tmp' = NoFile
  /\ pc' = "idle"
  /\ run' = NoRun
  /\ log' = "saved"
  /\ done' = [op |-> run.op, ok |-> TRUE, wrote |-> TRUE, col |-> run.col, cutoff |-> run.cutoff,
              batch |-> run.daily_df]
  /\ prev' = done
  /\ UNCHANGED <<family, hours, designator, peer, dirs, hist0, orphans, res, runs>>

\* write_parquet(target) opens the destination: it is truncated
WriteDirect ==
  /\ pc = "write_direct"
  /\ SetTarget(run.target, PartialFile)
  /\ pc' = "finish_direct"
  /\ UNCHANGED <<family, hours, designator, peer, dirs, hist0, tmp, orphans, run, log, done, res, runs, prev>>

\* pembayaran/qr update_historical: the lazy plan
\* pl.concat([daily anti-join hist, hist anti-join daily]), evaluated against
\* the file that is at hist_path when it is collected
SymmetricDelta(histFile, daily_df, flagCols) ==
  LET hist_df == WithColumnsZero(histFile.rows, flagCols \ histFile.cols)
      delta_new == AntiJoin(daily_df, hist_df)
      delta_old == AntiJoin(hist_df, daily_df)
  IN [delta_new |-> delta_new, delta_old |-> delta_old,
      cols |-> histFile.cols \cup flagCols,
      rows |-> delta_new \o delta_old]

\* write_parquet(target) completes.  The qr update_historical then collects
\* its lazy plan a second time, against the file it has just written, and
\* writes that result over it.
FinishDirect ==
  /\ pc = "finish_direct"
  /\ SetTarget(run.target, run.content)
  /\ IF run.again
     THEN LET again == SymmetricDelta(run.content, run.daily_df, HistFlagCols(family))
          IN /\ pc' = "write_direct"
             /\ run' = [run EXCEPT !.again = FALSE, !.content = File(again.cols, again.rows)]
             /\ log' = "saved_once"
             /\ done' = done
             /\ prev' = prev
     ELSE /\ pc' = "idle"
          /\ run' = NoRun
          /\ log' = "saved"
          /\ done' = [op |-> run.op, ok |-> TRUE, wrote |-> TRUE, col |-> run.col,
                      cutoff |-> run.cutoff, batch |-> run.daily_df]
          /\ prev' = done
  /\ UNCHANGED <<family, hours, designator, peer, dirs, hist0, tmp, orphans, res, runs>>

\* The write raises, or the process is killed.  A temporary file that was
\* being written, or was written and not yet renamed, stays where it is; a
\* destination that was being written stays as far as it was written.
Abort ==
  /\ pc # "idle"
  /\ \E why \in {"error", "killed"}, left \in BOOLEAN :
       /\ log' = why
       /\ orphans' = IF pc = "rename" \/ (pc = "write_tmp" /\ left)
                     THEN orphans + 1 ELSE orphans
  /\ tmp' = NoFile
  /\ pc' = "idle"
  /\ run' = NoRun
  /\ done' = [op |-> run.op, ok |-> FALSE, wrote |-> FALSE, col |-> run.col,
              cutoff |-> run.cutoff, batch |-> run.daily_df]
  /\ prev' = done
  /\ UNCHANGED <<family, hours, designator, peer, dirs, hist0, hist, daily, res, runs>>

\* --------------------------------------------------------- delta merge
\* ccw and tf_online update_historical
update_historical ==
  /\ CanStart
  /\ family = "ccw"
  /\ \E files \in {"none", "unreadable", "found"}, batch \in Batches :
       IF files = "none" THEN EndRun("merge", TRUE, "no_files", "none", 0, NoRes)
       ELSE IF files = "unreadable" THEN EndRun("merge", FALSE, "error", "none", 0, NoRes)
       ELSE
         LET flag_col == designator.names
             daily_df == DailyFrame(batch, flag_col)
         IN IF hist.exists
            THEN LET iter == SelectSeq(IterFlagCol(designator), LAMBDA c : c \notin hist.cols)
                     hist_missing_flags == {iter[k] : k \in DOMAIN iter}
                     hist_df == WithColumnsZero(hist.rows, hist_missing_flags)
                     hist_cols == hist.cols \cup hist_missing_flags
                     delta_new == AntiJoin(daily_df, hist_df)
                 IN IF HasDuplicates(iter)
                    THEN EndRun("merge", FALSE, "killed", "none", 0, NoRes)
                    ELSE IF is_empty(delta_new)
                    THEN BeginAtomicWrite("merge", "hist", File(hist_cols, hist_df), daily_df,
                                          "none", 0, NoRes)
                    ELSE IF SameSchema(hist_cols, flag_col)
                    THEN BeginAtomicWrite("merge", "hist",
                                          File(hist_cols, hist_df \o delta_new), daily_df,
                                          "none", 0, NoRes)
                    ELSE EndRun("merge", FALSE, "killed", "none", 0, NoRes)
            ELSE BeginAtomicWrite("merge", "hist", File(flag_col, daily_df), daily_df,
                                  "none", 0, NoRes)

\* pembayaran/qr and pembelian/pulsa update_historical
update_historical_qr ==
  /\ CanStart
  /\ family = "qr"
  /\ \E files \in {"none", "unreadable", "found"}, batch \in Batches :
       IF files = "none" THEN EndRun("merge", TRUE, "no_files", "none", 0, NoRes)
       ELSE IF files = "unreadable" THEN EndRun("merge", FALSE, "error", "none", 0, NoRes)
       ELSE
         LET flag_col == HistFlagCols(family)
             daily_df == DailyFrame(batch, flag_col)
         IN IF hist.exists
            THEN IF ~hist.complete THEN EndRun("merge", FALSE, "killed", "none", 0, NoRes)
                 ELSE LET d == SymmetricDelta(hist, daily_df, flag_col)
                      IN IF is_empty(d.delta_new) /\ is_empty(d.delta_old)
                         THEN EndRun("merge", TRUE, "nothing_to_update", "none", 0, NoRes)
                         ELSE IF SameSchema(d.cols, flag_col)
                         THEN BeginDirectWrite("merge", "hist", File(d.cols, d.rows), TRUE,
                                               daily_df, "none", 0, NoRes)
                         ELSE EndRun("merge", FALSE, "killed", "none", 0, NoRes)
            ELSE BeginDirectWrite("merge", "hist", File(flag_col, daily_df), FALSE,
                                  daily_df, "none", 0, NoRes)

\* ------------------------------------------------------ detector runs
\* rule parameters of the configuration, in units of five minutes / one amount
Windows == {1, 2}
Thresholds == {2, 3}
Spans == {1, 2}
Lookbacks == {1, 2}
SumThresholds == {3, 4}

\* pl.duration(minutes=10) of flag_ccw, in units of five minutes
MarkSpanCCW == 2

\* DROP_COLS of the flag.py modules
DROP_COLS == {"flag_10min", "flag_5mio"}

ColsAfter(cols, dropped, flag_col) == (cols \ dropped) \cup {flag_col}

\* ccw flag_ccw: filter_date, count-based burst, write_parquet(output_path)
flag_ccw ==
  /\ CanStart
  /\ family = "ccw"
  /\ \E W \in Windows, T \in Thresholds, cutoff \in Cutoffs :
       IF ~Readable(hist) THEN EndRun("detect", FALSE, "error", "flag_ccw", cutoff, NoRes)
       ELSE
         LET d == filter_date(hist.rows, cutoff)
         IN IF ~SortedInGroups(d)
            THEN EndRun("detect", FALSE, "error", "flag_ccw", cutoff, ErrRes(d))
            ELSE
              LET c == CountBurst(d, W, T, MarkSpanCCW)
                  ccw_flag_only == WithFlagOne(UniqueByRef(c.marked), "flag_ccw")
                  r == Res("count", d, W, T, MarkSpanCCW, c.df_with_rolling, c.burst_end,
                           <<>>, {}, ccw_flag_only)
              IN IF ~is_empty(ccw_flag_only)
                 THEN BeginDirectWrite("detect", "flag_ccw",
                                       File(ColsAfter(hist.cols, {}, "flag_ccw"), ccw_flag_only),
                                       FALSE, <<>>, "flag_ccw", cutoff, r)
                 ELSE EndRun("detect", TRUE, "none_found", "flag_ccw", cutoff, r)

\* pl.duration(minutes=10) of flag_tf_online_10min, in units of five minutes
MarkSpanTfOnline == 2

\* tf_online flag_tf_online_10min: drop, sort, filter_date, count-based burst;
\* the result (or a blank frame) goes to output_path through the temporary file
flag_tf_online_10min ==
  /\ CanStart
  /\ family = "tf_online"
  /\ \E W \in Windows, T \in Thresholds, cutoff \in Cutoffs :
       IF ~Readable(hist) THEN EndRun("detect", FALSE, "error", "flag_10min", cutoff, NoRes)
       ELSE
         LET d == filter_date(SortByTs(DropCols(hist.rows, DROP_COLS)), cutoff)
             c == CountBurst(d, W, T, MarkSpanTfOnline)
             flag_only == WithFlagOne(UniqueByRef(c.marked), "flag_10min")
             r == Res("count", d, W, T, MarkSpanTfOnline, c.df_with_rolling, c.burst_end,
                      <<>>, {}, flag_only)
         IN IF ~is_empty(flag_only)
            THEN BeginAtomicWrite("detect", "flag_10min",
                                  File(ColsAfter(hist.cols, DROP_COLS, "flag_10min"), flag_only), <<>>,
                                  "flag_10min", cutoff, r)
            ELSE BeginAtomicWrite("detect", "flag_10min", File({"flag_10min"}, <<>>), <<>>,
                                  "flag_10min", cutoff, r)

\* pembelian/listrik flag_10min: count-based burst with a configured marking
\* span (rolling_window_int), write_parquet(output_path)
flag_10min ==
  /\ CanStart
  /\ family = "qr"
  /\ \E W \in Windows, T \in Thresholds, M \in Spans :
       IF ~Readable(hist) THEN EndRun("detect", FALSE, "error", "flag_10min", 0, NoRes)
       ELSE
         LET d == DropCols(hist.rows, DROP_COLS)
         IN IF ~SortedInGroups(d)
            THEN EndRun("detect", FALSE, "error", "flag_10min", 0, ErrRes(d))
            ELSE
              LET c == CountBurst(d, W, T, M)
                  flag_only == WithFlagOne(UniqueByRef(c.marked), "flag_10min")
                  r == Res("count", d, W, T, M, c.df_with_rolling, c.burst_end,
                           <<>>, {}, flag_only)
              IN IF ~is_empty(flag_only)
                 THEN BeginDirectWrite("detect", "flag_10min",
                                       File(ColsAfter(hist.cols, DROP_COLS, "flag_10min"), flag_only),
                                       FALSE, <<>>, "flag_10min", 0, r)
                 ELSE EndRun("detect", TRUE, "none_found", "flag_10min", 0, r)

\* pembayaran/qr and non_qr flag_non_qr_5mio: value-sum burst,
\* write_parquet(output_path)
flag_non_qr_5mio ==
  /\ CanStart
  /\ family = "qr"
  /\ \E L \in Lookbacks, T \in SumThresholds :
       IF ~Readable(hist) THEN EndRun("detect", FALSE, "error", "flag_5mio", 0, NoRes)
       ELSE
         LET d == DropCols(hist.rows, DROP_COLS)
             v == ValueBurst(d, L, T)
             flag_only == WithFlagOne(v.flag_only, "flag_5mio")
             r == Res("sum", d, L, T, 0, <<>>, <<>>, v.df_sums, v.keys, flag_only)
         IN IF ~is_empty(flag_only)
            THEN BeginDirectWrite("detect", "flag_5mio",
                                  File(ColsAfter(hist.cols, DROP_COLS, "flag_5mio"), flag_only),
                                  FALSE, <<>>, "flag_5mio", 0, r)
            ELSE EndRun("detect", TRUE, "none_found", "flag_5mio", 0, r)

\* e_wallet flag_non_qr_5mio: sort, filter_date, value-sum burst; the result
\* (or a blank frame when nothing qualifies) is written to the temporary file
\* and os.replace(tmp_path, hist_path) puts it at hist_path
flag_ewallet_5mio ==
  /\ CanStart
  /\ family = "ewallet"
  /\ \E L \in Lookbacks, T \in SumThresholds, cutoff \in Cutoffs :
       IF ~Readable(hist) THEN EndRun("detect", FALSE, "error", "flag_5mio", cutoff, NoRes)
       ELSE
         LET d == filter_date(SortByTs(DropCols(hist.rows, DROP_COLS)), cutoff)
             v == ValueBurst(d, L, T)
             flag_only == WithFlagOne(v.flag_only, "flag_5mio")
             r == Res("sum", d, L, T, 0, <<>>, <<>>, v.df_sums, v.keys, flag_only)
         IN IF ~is_empty(flag_only)
            THEN BeginAtomicWrite("detect", "hist",
                                  File(ColsAfter(hist.cols, DROP_COLS, "flag_5mio"), flag_only), <<>>,
                                  "flag_5mio", cutoff, r)
            ELSE BeginAtomicWrite("detect", "hist", File({"flag_5mio"}, <<>>), <<>>,
                                  "flag_5mio", cutoff, r)

\* ------------------------------------------- tf_online early-hours rule
DROP_COLS_EARLY == {"flag_5min", "flag_10min", "flag_50mio"}

\* the defaults of filter_date's time_start and time_end parameters
time_start_default == hours.start
time_end_default == hours.start

\* filter_date of tf_online_50mio_early: date >= cutoff_date and
\* dt.hour().is_between(time_start, time_end), both ends closed
filter_date_early(rows, time_start, time_end, cutoff) ==
  SelectSeq(rows, LAMBDA x : /\ DateOf(x.ts) >= cutoff
                             /\ time_start <= HourOf(x.ts)
                             /\ HourOf(x.ts) <= time_end)

\* flag_tf_online_50m_early: drop, filter_date(df=df) with the defaults,
\* value sum over pl.duration(hours=24), write_parquet(output_path)
flag_tf_online_50m_early ==
  /\ CanStart
  /\ family = "tf_online"
  /\ \E T \in SumThresholds, cutoff \in Cutoffs :
       IF ~Readable(hist)
       THEN EndRun("detect", FALSE, "error", "flag_50mio_early", cutoff, NoRes)
       ELSE
         LET d == filter_date_early(DropCols(hist.rows, DROP_COLS_EARLY),
                                    time_start_default, time_end_default, cutoff)
             v == ValueBurst(d, DayLen, T)
             flag_only == WithFlagOne(v.flag_only, "flag_50mio_early")
             r == Res("sum", d, DayLen, T, 0, <<>>, <<>>, v.df_sums, v.keys, flag_only)
         IN IF ~is_empty(flag_only)
            THEN BeginDirectWrite("detect", "flag_50mio_early",
                                  File(ColsAfter(hist.cols, DROP_COLS_EARLY, "flag_50mio_early"),
                                       flag_only),
                                  FALSE, <<>>, "flag_50mio_early", cutoff, r)
            ELSE EndRun("detect", TRUE, "none_found", "flag_50mio_early", cutoff, r)

\* ------------------------------------------------- flag reconciliation
\* a skip test that looks at the reference ids only, not at the flag value
HasMatchingRow(rows, new_flag_refs, flag_col) ==
  \E i \in DOMAIN rows : rows[i].ref \in new_flag_refs /\ flag_col \in DOMAIN rows[i].flags

\* (flag == 0) for a row whose reference id is in the batch
HasUnflagged(rows, new_flag_refs, flag_col) ==
  \E i \in DOMAIN rows : rows[i].ref \in new_flag_refs /\ rows[i].flags[flag_col] = 0

\* pl.when(ref.is_in(new_flag_refs)).then(1).otherwise(pl.col(flag_col))
WhenThenOne(rows, new_flag_refs, flag_col) ==
  [i \in DOMAIN rows |->
     [rows[i] EXCEPT !.flags[flag_col] =
        IF rows[i].ref \in new_flag_refs THEN 1 ELSE rows[i].flags[flag_col]]]

\* an update that also clears the flag columns of the other rules
OrIsInClearingOthers(rows, new_flag_refs, flag_col) ==
  [i \in DOMAIN rows |->
     [rows[i] EXCEPT !.flags =
        [c \in DOMAIN rows[i].flags |->
           IF c # flag_col THEN 0
           ELSE IF rows[i].flags[c] = 1 \/ rows[i].ref \in new_flag_refs THEN 1 ELSE 0]]]

\* an update that writes the membership test alone, the old value dropped
IsInOnly(rows, new_flag_refs, flag_col) ==
  [i \in DOMAIN rows |->
     [rows[i] EXCEPT !.flags[flag_col] = IF rows[i].ref \in new_flag_refs THEN 1 ELSE 0]]

\* an update that writes the result into every flag column of the store
OrIsInEveryColumn(rows, new_flag_refs, flag_col) ==
  [i \in DOMAIN rows |->
     [rows[i] EXCEPT !.flags =
        [c \in DOMAIN rows[i].flags |->
           IF rows[i].flags[flag_col] = 1 \/ rows[i].ref \in new_flag_refs
           THEN 1 ELSE rows[i].flags[c]]]]

\* ((flag == 1) | ref.is_in(new_flag_refs)).cast(pl.Int8)
OrIsIn(rows, new_flag_refs, flag_col) ==
  [i \in DOMAIN rows |->
     [rows[i] EXCEPT !.flags[flag_col] =
        IF rows[i].flags[flag_col] = 1 \/ rows[i].ref \in new_flag_refs THEN 1 ELSE 0]]

\* ccw update_flag
update_flag ==
  /\ CanStart
  /\ family = "ccw"
  /\ \E cutoff \in Cutoffs :
       LET flag_col == "flag_ccw"
           batch == daily[flag_col]
       IN IF ~batch.exists THEN EndRun("reconcile", TRUE, "no_daily", flag_col, cutoff, NoRes)
          ELSE IF ~batch.complete THEN EndRun("reconcile", FALSE, "error", flag_col, cutoff, NoRes)
          ELSE
            LET daily_flag_df == filter_date(batch.rows, cutoff)
                new_flag_refs == RefsOf(daily_flag_df)
            IN IF is_empty(daily_flag_df)
               THEN EndRun("reconcile", TRUE, "no_daily", flag_col, cutoff, NoRes)
               ELSE IF ~hist.exists
               THEN EndRun("reconcile", FALSE, "hist_not_found", flag_col, cutoff, NoRes)
               ELSE IF ~hist.complete \/ flag_col \notin hist.cols
               THEN EndRun("reconcile", FALSE, "killed", flag_col, cutoff, NoRes)
               ELSE IF HasUnflagged(hist.rows, new_flag_refs, flag_col)
               THEN BeginAtomicWrite("reconcile", "hist",
                                     File(hist.cols, WhenThenOne(hist.rows, new_flag_refs, flag_col)), <<>>,
                                     flag_col, cutoff, NoRes)
               ELSE EndRun("reconcile", TRUE, "no_new_flag", flag_col, cutoff, NoRes)

\* pembayaran/qr update_flag_5mio and update_flag_10min
update_flag_qr ==
  /\ CanStart
  /\ family = "qr"
  /\ \E flag_col \in {"flag_5mio", "flag_10min"} :
       LET batch == daily[flag_col]
       IN IF ~batch.exists THEN EndRun("reconcile", TRUE, "no_daily", flag_col, 0, NoRes)
          ELSE IF ~batch.complete THEN EndRun("reconcile", FALSE, "killed", flag_col, 0, NoRes)
          ELSE
            LET new_flag_refs == RefsOf(batch.rows)
            IN IF is_empty(batch.rows)
               THEN EndRun("reconcile", TRUE, "no_daily", flag_col, 0, NoRes)
               ELSE IF ~hist.exists
               THEN EndRun("reconcile", FALSE, "hist_not_found", flag_col, 0, NoRes)
               ELSE IF ~hist.complete \/ flag_col \notin hist.cols
               THEN EndRun("reconcile", FALSE, "killed", flag_col, 0, NoRes)
               ELSE
                 LET is_new_refs_exist ==
                       \A i \in DOMAIN hist.rows :
                          hist.rows[i].ref \in new_flag_refs => hist.rows[i].flags[flag_col] = 1
                 IN IF ~is_new_refs_exist
                    THEN BeginDirectWrite("reconcile", "hist",
                                          File(hist.cols, OrIsIn(hist.rows, new_flag_refs, flag_col)),
                                          FALSE, <<>>, flag_col, 0, NoRes)
                    ELSE EndRun("reconcile", TRUE, "no_new_flag", flag_col, 0, NoRes)

\* e_wallet update_flag_5mio and update_flag_10min
update_flag_ewallet ==
  /\ CanStart
  /\ family = "ewallet"
  /\ \E flag_col \in {"flag_5mio", "flag_10min"} :
       LET batch == daily[flag_col]
       IN IF ~batch.exists THEN EndRun("reconcile", TRUE, "no_daily", flag_col, 0, NoRes)
          ELSE IF ~batch.complete THEN EndRun("reconcile", FALSE, "error", flag_col, 0, NoRes)
          ELSE
            LET new_flag_refs == RefsOf(batch.rows)
            IN IF is_empty(batch.rows)
               THEN EndRun("reconcile", TRUE, "no_daily", flag_col, 0, NoRes)
               ELSE IF ~hist.exists
               THEN EndRun("reconcile", FALSE, "hist_not_found", flag_col, 0, NoRes)
               ELSE IF ~hist.complete \/ flag_col \notin hist.cols
               THEN EndRun("reconcile", FALSE, "killed", flag_col, 0, NoRes)
               ELSE IF HasUnflagged(hist.rows, new_flag_refs, flag_col)
               THEN BeginAtomicWrite("reconcile", "hist",
                                     File(hist.cols, OrIsIn(hist.rows, new_flag_refs, flag_col)), <<>>,
                                     flag_col, 0, NoRes)
               ELSE EndRun("reconcile", TRUE, "no_new_flag", flag_col, 0, NoRes)

Next ==
  \/ update_historical
  \/ update_historical_qr
  \/ flag_ccw
  \/ flag_10min
  \/ flag_non_qr_5mio
  \/ flag_ewallet_5mio
  \/ update_flag
  \/ update_flag_qr
  \/ update_flag_ewallet
  \/ WriteTmp
  \/ Rename
  \/ WriteDirect
  \/ FinishDirect
  \/ Abort

Spec == Init /\ [][Next]_vars

\* ------------------------------------------- one detector run on any input
Accts == {1, 2}
Amts == {1, 2}
Times == 0..MaxTs

\* every frame of at most MaxRecs transactions; the reference id of a row is
\* its position, so reference ids are unique
DetectRows ==
  UNION {{[i \in 1..n |-> [ref |-> i, acct |-> a[i], ts |-> t[i], amt |-> m[i],
                            flags |-> [c \in HistFlagCols(family) |-> 0]]] :
            a \in [1..n -> Accts], t \in [1..n -> Times], m \in [1..n -> Amts]} :
         n \in 0..MaxRecs}

\* the detectors run are those of the three families and of tf_online
DetectFamilies == Families \cup {"tf_online"}

InitDetect ==
  /\ family \in DetectFamilies
  /\ designator = ListOf(HistFlagCols(family))
  /\ \E rows \in DetectRows : hist = File(HistFlagCols(family), rows)
  /\ daily = [c \in AllFlagCols |-> NoFile]
  /\ tmp = NoFile
  /\ orphans = 0
  /\ pc = "idle"
  /\ run = NoRun
  /\ log = "start"
  /\ done = NoDone
  /\ res = NoRes
  /\ runs = MaxRuns - 1
  /\ prev = NoDone
  /\ peer = NoPeer
  /\ hist0 = hist
  /\ dirs = OneDir
  /\ hours = AllDay

NextDetect ==
  \/ flag_ccw
  \/ flag_tf_online_10min
  \/ flag_10min
  \/ flag_non_qr_5mio
  \/ flag_ewallet_5mio
  \/ WriteTmp
  \/ Rename
  \/ WriteDirect
  \/ FinishDirect
  \/ Abort

SpecDetect == InitDetect /\ [][NextDetect]_vars

\* --------------------------- the ccw merge under a changed configuration
\* historical.flag_col as a configuration may give it
Designators ==
  {StrOf("flag_ccw"), StrOf("flag_5mio"), ListOf({"flag_ccw"}), ListOf({"flag_ccw", "flag_5mio"})}

\* stores an earlier configuration has left: without flag columns, or with
\* flag_ccw only
OlderStores ==
  {File(cols, DailyFrame(b, cols)) : cols \in {{}, {"flag_ccw"}}, b \in {<<1>>, <<1, 2>>, <<2, 3>>}}

InitSchema ==
  /\ family = "ccw"
  /\ designator \in Designators
  /\ hist \in OlderStores
  /\ daily = [c \in AllFlagCols |-> NoFile]
  /\ tmp = NoFile
  /\ orphans = 0
  /\ pc = "idle"
  /\ run = NoRun
  /\ log = "start"
  /\ done = NoDone
  /\ res = NoRes
  /\ runs = MaxRuns - 2
  /\ prev = NoDone
  /\ peer = NoPeer
  /\ hist0 = hist
  /\ dirs = OneDir
  /\ hours = AllDay

NextSchema ==
  \/ update_historical
  \/ WriteTmp
  \/ Rename
  \/ Abort

SpecSchema == InitSchema /\ [][NextSchema]_vars

\* ----------------------------------------------------- two runs at once
\* e_wallet update_flag_5mio or update_flag_10min started by a second
\* process: the scripts take no lock and do not look for a run in progress
update_flag_peer ==
  /\ peer.pc = "idle"
  /\ family = "ewallet"
  /\ \E flag_col \in {"flag_5mio", "flag_10min"} :
       LET batch == daily[flag_col]
           ended == [NoPeer EXCEPT !.pc = "done", !.col = flag_col, !.pre = hist]
       IN IF ~Readable(batch) \/ is_empty(batch.rows) THEN peer' = ended
          ELSE IF ~Readable(hist) \/ flag_col \notin hist.cols THEN peer' = ended
          ELSE IF HasUnflagged(hist.rows, RefsOf(batch.rows), flag_col)
          THEN peer' = [pc |-> "write_tmp", col |-> flag_col, pre |-> hist,
                        content |-> File(hist.cols, OrIsIn(hist.rows, RefsOf(batch.rows), flag_col)),
                        tmp |-> NoFile, wrote |-> FALSE]
          ELSE peer' = ended
  /\ UNCHANGED <<family, hours, designator, dirs, hist0, hist, daily, tmp, orphans, pc, run, log, done, res, runs, prev>>

\* the second run: write_parquet(tmp_path) completes
PeerWriteTmp ==
  /\ peer.pc = "write_tmp"
  /\ peer' = [peer EXCEPT !.tmp = peer.content, !.pc = "rename"]
  /\ UNCHANGED <<family, hours, designator, dirs, hist0, hist, daily, tmp, orphans, pc, run, log, done, res, runs, prev>>

\* the second run: os.replace(tmp_path, hist_path)
PeerRename ==
  /\ peer.pc = "rename"
  /\ hist' = os_replace(hist, peer.tmp)
  /\ peer' = [peer EXCEPT !.tmp = NoFile, !.pc = "done", !.wrote = TRUE]
  /\ UNCHANGED <<family, hours, designator, dirs, hist0, daily, tmp, orphans, pc, run, log, done, res, runs, prev>>

InitRace ==
  /\ family = "ewallet"
  /\ designator = ListOf(HistFlagCols(family))
  /\ InitFiles
  /\ tmp = NoFile
  /\ orphans = 0
  /\ pc = "idle"
  /\ run = NoRun
  /\ log = "start"
  /\ done = NoDone
  /\ res = NoRes
  /\ runs = MaxRuns - 1
  /\ prev = NoDone
  /\ peer = NoPeer
  /\ hist0 = hist
  /\ dirs = OneDir
  /\ hours = AllDay

NextRace ==
  \/ update_flag_ewallet
  \/ WriteTmp
  \/ Rename
  \/ Abort
  \/ update_flag_peer
  \/ PeerWriteTmp
  \/ PeerRename

SpecRace == InitRace /\ [][NextRace]_vars

\* ------------------------------------- flag batches without a store
\* The flag batches are at their output paths and nothing is at hist_path:
\* the store has been moved away, or was never built for this hist_path.
InitNoStore ==
  /\ family \in Families
  /\ designator = ListOf(HistFlagCols(family))
  /\ hist = NoFile
  /\ \E f \in [HistFlagCols(family) -> {1, 2, 3}] :
       daily = [c \in AllFlagCols |->
                  IF c \in HistFlagCols(family)
                  THEN IF f[c] = 1 THEN NoFile
                       ELSE File({c}, WithFlagOne(DailyFrame(IF f[c] = 2 THEN <<2>> ELSE <<1, 2>>, {}), c))
                  ELSE NoFile]
  /\ tmp = NoFile
  /\ orphans = 0
  /\ pc = "idle"
  /\ run = NoRun
  /\ log = "start"
  /\ done = NoDone
  /\ res = NoRes
  /\ runs = MaxRuns - 2
  /\ prev = NoDone
  /\ peer = NoPeer
  /\ hist0 = hist
  /\ dirs = OneDir
  /\ hours = AllDay

NextNoStore ==
  \/ update_flag
  \/ update_flag_qr
  \/ update_flag_ewallet
  \/ update_historical
  \/ update_historical_qr
  \/ WriteTmp
  \/ Rename
  \/ WriteDirect
  \/ FinishDirect
  \/ Abort

SpecNoStore == InitNoStore /\ [][NextNoStore]_vars

\* ------------------------------- reconciliation of a store in any state
\* A store of three records that earlier reconciliations have left with any
\* flag values, and a flag batch (or none) at each rule's output path.
FlaggedStores(cols) ==
  {File(cols, [i \in 1..3 |->
                 [DailyFrame(<<1, 2, 3>>, cols)[i] EXCEPT
                    !.flags = [c \in cols |-> IF c \in f[i] THEN 1 ELSE 0]]]) :
     f \in [1..3 -> SUBSET cols]}

FlagBatches(flag_col) ==
  {NoFile} \cup {File({flag_col}, WithFlagOne(DailyFrame(b, {}), flag_col)) :
                   b \in {<<2>>, <<1, 2>>, <<3>>}}

InitReconcile ==
  /\ family \in Families
  /\ designator = ListOf(HistFlagCols(family))
  /\ hist \in FlaggedStores(HistFlagCols(family))
  /\ \E f \in [HistFlagCols(family) -> UNION {FlagBatches(c) : c \in HistFlagCols(family)}] :
       /\ \A c \in HistFlagCols(family) : f[c] \in FlagBatches(c)
       /\ daily = [c \in AllFlagCols |-> IF c \in HistFlagCols(family) THEN f[c] ELSE NoFile]
  /\ tmp = NoFile
  /\ orphans = 0
  /\ pc = "idle"
  /\ run = NoRun
  /\ log = "start"
  /\ done = NoDone
  /\ res = NoRes
  /\ runs = MaxRuns - 1
  /\ prev = NoDone
  /\ peer = NoPeer
  /\ hist0 = hist
  /\ dirs = OneDir
  /\ hours = AllDay

NextReconcile ==
  \/ update_flag
  \/ update_flag_qr
  \/ update_flag_ewallet
  \/ WriteTmp
  \/ Rename
  \/ WriteDirect
  \/ FinishDirect
  \/ Abort

SpecReconcile == InitReconcile /\ [][NextReconcile]_vars

\* ------------------------------ the tf_online detector and its paths
InitTmp ==
  /\ family = "tf_online"
  /\ designator = ListOf(HistFlagCols(family))
  /\ dirs \in Configured
  /\ hours = AllDay
  /\ hist \in FlaggedStores(HistFlagCols(family))
  /\ daily = [c \in AllFlagCols |-> NoFile]
  /\ tmp = NoFile
  /\ orphans = 0
  /\ pc = "idle"
  /\ run = NoRun
  /\ log = "start"
  /\ done = NoDone
  /\ res = NoRes
  /\ runs = MaxRuns - 2
  /\ prev = NoDone
  /\ peer = NoPeer
  /\ hist0 = hist

NextTmp ==
  \/ flag_tf_online_10min
  \/ WriteTmp
  \/ Rename
  \/ Abort

SpecTmp == InitTmp /\ [][NextTmp]_vars

\* ------------------------- update_flag under any flag_col configuration
\* ccw update_flag with flag_col as the configuration gives it.  A str, or
\* a list of one name, selects one column.  With a list of several names
\* the predicate (is_in(new_flag_refs)) & (pl.col(flag_col) == 0) expands to
\* several expressions and filter refuses it when has_unflagged is
\* collected; the isinstance check that raises ValueError stands after
\* that, inside `if has_unflagged`.
update_flag_designated ==
  /\ CanStart
  /\ family = "ccw"
  /\ \E cutoff \in Cutoffs :
       LET batch == daily["flag_ccw"]
       IN IF ~batch.exists THEN EndRun("reconcile", TRUE, "no_daily", "flag_ccw", cutoff, NoRes)
          ELSE IF ~batch.complete THEN EndRun("reconcile", FALSE, "error", "flag_ccw", cutoff, NoRes)
          ELSE
            LET daily_flag_df == filter_date(batch.rows, cutoff)
                new_flag_refs == RefsOf(daily_flag_df)
            IN IF is_empty(daily_flag_df)
               THEN EndRun("reconcile", TRUE, "no_daily", "flag_ccw", cutoff, NoRes)
               ELSE IF ~hist.exists
               THEN EndRun("reconcile", FALSE, "hist_not_found", "flag_ccw", cutoff, NoRes)
               ELSE IF ~hist.complete \/ Cardinality(designator.names) # 1
               THEN EndRun("reconcile", FALSE, "killed", "flag_ccw", cutoff, NoRes)
               ELSE
                 LET flag_col == CHOOSE c \in designator.names : TRUE
                 IN IF flag_col \notin hist.cols
                    THEN EndRun("reconcile", FALSE, "killed", "flag_ccw", cutoff, NoRes)
                    ELSE IF HasUnflagged(hist.rows, new_flag_refs, flag_col)
                    THEN BeginAtomicWrite("reconcile", "hist",
                                          File(hist.cols, WhenThenOne(hist.rows, new_flag_refs, flag_col)),
                                          <<>>, "flag_ccw", cutoff, NoRes)
                    ELSE EndRun("reconcile", TRUE, "no_new_flag", "flag_ccw", cutoff, NoRes)

InitDesignated ==
  /\ family = "ccw"
  /\ designator \in Designators
  /\ hist \in {NoFile} \cup FlaggedStores({"flag_ccw"}) \cup FlaggedStores({"flag_ccw", "flag_5mio"})
  /\ \E f \in FlagBatches("flag_ccw") \cup {File({"flag_ccw"}, <<>>)} :
       daily = [c \in AllFlagCols |-> IF c = "flag_ccw" THEN f ELSE NoFile]
  /\ dirs = OneDir
  /\ hours = AllDay
  /\ tmp = NoFile
  /\ orphans = 0
  /\ pc = "idle"
  /\ run = NoRun
  /\ log = "start"
  /\ done = NoDone
  /\ res = NoRes
  /\ runs = MaxRuns - 1
  /\ prev = NoDone
  /\ peer = NoPeer
  /\ hist0 = hist

NextDesignated ==
  \/ update_flag_designated
  \/ WriteTmp
  \/ Rename
  \/ Abort

SpecDesignated == InitDesignated /\ [][NextDesignated]_vars

\* --------------------------- the reconciliations of two rules in a row
InitCommute ==
  /\ family \in {"qr", "ewallet"}
  /\ designator = ListOf(HistFlagCols(family))
  /\ hist \in FlaggedStores(HistFlagCols(family))
  /\ \E f \in [HistFlagCols(family) -> UNION {FlagBatches(c) : c \in HistFlagCols(family)}] :
       /\ \A c \in HistFlagCols(family) : f[c] \in FlagBatches(c)
       /\ daily = [c \in AllFlagCols |-> IF c \in HistFlagCols(family) THEN f[c] ELSE NoFile]
  /\ dirs = OneDir
  /\ hours = AllDay
  /\ tmp = NoFile
  /\ orphans = 0
  /\ pc = "idle"
  /\ run = NoRun
  /\ log = "start"
  /\ done = NoDone
  /\ res = NoRes
  /\ runs = MaxRuns - 2
  /\ prev = NoDone
  /\ peer = NoPeer
  /\ hist0 = hist

NextCommute ==
  \/ update_flag_qr
  \/ update_flag_ewallet
  \/ WriteTmp
  \/ Rename
  \/ WriteDirect
  \/ FinishDirect
  \/ Abort

SpecCommute == InitCommute /\ [][NextCommute]_vars

\* ------------------------------- detection on a store that carries flags
InitDetectFlags ==
  /\ family \in DetectFamilies
  /\ designator = ListOf(HistFlagCols(family))
  /\ hist \in FlaggedStores(HistFlagCols(family))
  /\ daily = [c \in AllFlagCols |-> NoFile]
  /\ dirs = OneDir
  /\ hours = AllDay
  /\ tmp = NoFile
  /\ orphans = 0
  /\ pc = "idle"
  /\ run = NoRun
  /\ log = "start"
  /\ done = NoDone
  /\ res = NoRes
  /\ runs = MaxRuns - 1
  /\ prev = NoDone
  /\ peer = NoPeer
  /\ hist0 = hist

SpecDetectFlags == InitDetectFlags /\ [][NextDetect]_vars

\* -------------------------------------- the early-hours rule on its own
InitEarly ==
  /\ family = "tf_online"
  /\ designator = ListOf(HistFlagCols(family))
  /\ \E rows \in DetectRows : hist = File(HistFlagCols(family), rows)
  /\ daily = [c \in AllFlagCols |-> NoFile]
  /\ dirs = OneDir
  /\ hours \in TimeRanges
  /\ tmp = NoFile
  /\ orphans = 0
  /\ pc = "idle"
  /\ run = NoRun
  /\ log = "start"
  /\ done = NoDone
  /\ res = NoRes
  /\ runs = MaxRuns - 1
  /\ prev = NoDone
  /\ peer = NoPeer
  /\ hist0 = hist

NextEarly ==
  \/ flag_tf_online_50m_early
  \/ WriteDirect
  \/ FinishDirect
  \/ Abort

SpecEarly == InitEarly /\ [][NextEarly]_vars


\* ================================================================ properties
UniqueRefs(rows) == \A i, j \in DOMAIN rows : rows[i].ref = rows[j].ref => i = j

Range(rows) == {rows[i] : i \in DOMAIN rows}

\* a run in progress ends with this step
RunEnds == pc # "idle" /\ pc' = "idle"

\* every flag that is 1 in a row of `old` is 1 in the rows of `new` with the same reference id
FlagsKept(old, new) ==
  \A i \in DOMAIN old, j \in DOMAIN new :
     old[i].ref = new[j].ref =>
       \A c \in DOMAIN old[i].flags :
          old[i].flags[c] = 1 => (c \in DOMAIN new[j].flags /\ new[j].flags[c] = 1)

\* C1: after any sequence of update_historical runs of the ccw / tf_online
\* merge, started from an absent store and fed any batches, no two records of
\* the Historical Store have the same reference id.
C1_Uniqueness == (family = "ccw" /\ Readable(hist)) => UniqueRefs(hist.rows)

\* C2: when a merge, detect or reconcile run ends, every flag that was 1 in the
\* store before the run is still 1 for the same record in the store after it.
C2_MonotonicFlags ==
  [][(RunEnds /\ Readable(run.pre) /\ Readable(hist'))
       => FlagsKept(run.pre.rows, hist'.rows)]_vars

\* C3: when a merge, detect or reconcile run ends, every reference id that was
\* in the store before the run is in the store after it.
C3_NeverDeleted ==
  [][(RunEnds /\ Readable(run.pre) /\ Readable(hist'))
       => RefsOf(run.pre.rows) \subseteq RefsOf(hist'.rows)]_vars

\* a reconcile run on column col with cutoff starts with this step
ReconcileStarts(col, cutoff) ==
  /\ pc = "idle"
  /\ runs' = runs + 1
  /\ \/ pc' = "idle" /\ done'.op = "reconcile" /\ done'.col = col /\ done'.cutoff = cutoff
     \/ pc' # "idle" /\ run'.op = "reconcile" /\ run'.col = col /\ run'.cutoff = cutoff

\* C4: a reconcile run started right after a successful reconcile run of the
\* same column and cutoff (same batch file, same store) ends at once: it
\* writes no temporary file, renames nothing and leaves the store as the
\* first run left it.
C4_ReconcileIdempotent ==
  [][(done.op = "reconcile" /\ done.ok /\ ReconcileStarts(done.col, done.cutoff))
       => /\ pc' = "idle"
          /\ done'.ok /\ ~done'.wrote
          /\ hist' = hist /\ tmp' = tmp /\ orphans' = orphans]_vars

\* a reconcile run that wrote the store has been followed by a second run of
\* the same column and cutoff, which found nothing new
C4_Witness ==
  /\ pc = "idle"
  /\ prev.op = "reconcile" /\ prev.ok /\ prev.wrote
  /\ done.op = "reconcile" /\ done.col = prev.col /\ done.cutoff = prev.cutoff
  /\ done.ok /\ ~done.wrote
  /\ log = "no_new_flag"
  /\ \E i \in DOMAIN hist.rows : hist.rows[i].flags[done.col] = 1

\* C5: whatever run is in progress, the file at hist_path is complete, and
\* until the run ends it is the file the run found there.
C5_AtomicVisibility ==
  /\ hist.exists => hist.complete
  /\ (pc # "idle" /\ run.target = "hist") => hist = run.pre

\* C6: a run that writes the store and fails or is interrupted leaves the
\* store as it found it.
C6_CrashSafety ==
  [][(RunEnds /\ ~done'.ok /\ run.target = "hist") => hist' = run.pre]_vars

\* sum of the amounts of a frame
RECURSIVE SumAmt(_)
SumAmt(rows) ==
  IF rows = <<>> THEN 0 ELSE rows[Len(rows)].amt + SumAmt(SubSeq(rows, 1, Len(rows) - 1))

\* x lies inside the window of length L anchored at r (its start left out)
InsideWindow(x, r, L) == x.acct = r.acct /\ x.ts > r.ts - L /\ x.ts <= r.ts

\* C7: after a value-sum detector run, every record inside a window whose
\* anchor's rolling sum reaches the threshold is in the flagged output.
C7_FullContributingSet ==
  res.kind = "sum" =>
    \A i, j \in DOMAIN res.d :
       (InsideWindow(res.d[j], res.d[i], res.W) /\ res.sums[res.d[i].ref] >= res.T)
         => res.d[j].ref \in RefsOf(res.out)

\* reference ids of the records of d inside the marking interval of some burst point
MarkedRefs(d, bursts, M) ==
  {d[i].ref : i \in {n \in DOMAIN d :
                       \E k \in DOMAIN bursts :
                          /\ bursts[k].acct = d[n].acct
                          /\ bursts[k].ts - M <= d[n].ts
                          /\ d[n].ts <= bursts[k].ts}}

\* d holds exactly T records, all of one account and all inside one window W
OneFullWindow(d, W, T) ==
  /\ Len(d) = T
  /\ \A i, j \in DOMAIN d : d[i].acct = d[j].acct /\ d[i].ts - d[j].ts < W

\* C8: after a count-based detector run, a record is in the output iff it
\* lies in [bp.ts - M, bp.ts] for some burst point bp of its account; no
\* reference id is in the output twice; the output is empty when there is no
\* burst point; T records of one account inside one window (M >= W) are all
\* in the output, and fewer than T records give an empty output.
C8_CountMarking ==
  res.kind = "count" =>
    /\ RefsOf(res.out) = MarkedRefs(res.d, res.bursts, res.M)
    /\ UniqueRefs(res.out)
    /\ (res.bursts = <<>> => res.out = <<>>)
    /\ (OneFullWindow(res.d, res.W, res.T) /\ res.M >= res.W) => Len(res.out) = res.T
    /\ Len(res.d) < res.T => res.out = <<>>

\* three records of one account inside one window, threshold three: all marked
C8_Witness ==
  /\ res.kind = "count"
  /\ res.T = 3
  /\ OneFullWindow(res.d, res.W, res.T)
  /\ Len(res.out) = 3
  /\ \E i \in DOMAIN res.d, k \in DOMAIN res.bursts : res.d[i].ts = res.bursts[k].ts - res.M

\* number of records of r's account with timestamp in (r.ts - W, r.ts]
BruteCount(d, r, W) ==
  Cardinality({j \in DOMAIN d : d[j].acct = r.acct /\ d[j].ts > r.ts - W /\ d[j].ts <= r.ts})

\* C9: after a count-based detector run, every input record has a rolling
\* count, equal to the number of input records of its account with timestamp
\* in (r.ts - W, r.ts]; the burst points are the records whose count >= T.
C9_WindowingCorrect ==
  res.kind = "count" =>
    /\ \A k \in DOMAIN res.rolling :
          res.rolling[k].rolling_count = BruteCount(res.d, res.rolling[k].row, res.W)
    /\ \A i \in DOMAIN res.d : \E k \in DOMAIN res.rolling : res.rolling[k].row = res.d[i]
    /\ {<<res.bursts[k].acct, res.bursts[k].ts>> : k \in DOMAIN res.bursts}
         = {<<res.d[i].acct, res.d[i].ts>> :
              i \in {n \in DOMAIN res.d : BruteCount(res.d, res.d[n], res.W) >= res.T}}

\* a count of two made of the anchor and a record sharing its timestamp,
\* with a third record of the account exactly W before the anchor left out
C9_Witness ==
  /\ res.kind = "count"
  /\ \E k \in DOMAIN res.rolling :
        /\ res.rolling[k].rolling_count = 2
        /\ \E i, j \in DOMAIN res.d :
              /\ i # j
              /\ res.d[i].acct = res.rolling[k].row.acct
              /\ res.d[j].acct = res.rolling[k].row.acct
              /\ res.d[i].ts = res.rolling[k].row.ts
              /\ res.d[i].ref # res.rolling[k].row.ref
              /\ res.d[j].ts = res.rolling[k].row.ts - res.W
  /\ res.bursts # <<>>

\* a merge run ends successfully with this step
MergeEnds == RunEnds /\ run.op = "merge" /\ done'.ok

\* the store the merge found (empty when there was none) and the incoming
\* records whose reference id it did not hold
Historical == IF run.pre.exists THEN run.pre.rows ELSE <<>>
NewOnly == AntiJoin(run.daily_df, Historical)

\* C10: when update_historical ends, the store holds exactly the records it
\* held before, unchanged, and the incoming records whose reference id it did
\* not hold.
C10_MergeResult ==
  [][(MergeEnds /\ (run.pre.exists => Readable(run.pre)))
       => /\ Readable(hist')
          /\ Range(hist'.rows) = Range(Historical) \cup Range(NewOnly)]_vars

\* a merge run that found its daily files starts with this step
MergeStarts ==
  /\ pc = "idle"
  /\ runs' = runs + 1
  /\ \/ pc' # "idle" /\ run'.op = "merge"
     \/ pc' = "idle" /\ done'.op = "merge" /\ log' \notin {"no_files", "error"}

\* every row of the file has a value for every column of cols
HasAllFlagCols(f, cols) ==
  /\ cols \subseteq f.cols
  /\ \A i \in DOMAIN f.rows : cols \subseteq DOMAIN f.rows[i].flags

\* C11: when update_historical runs on an existing store with a configured
\* flag designator (a name or a list of names), the merge goes on to write a
\* store in which every record, old or new, has a value for every configured
\* flag column, the old records having 0 in the columns they lacked.
C11_SchemaEvolution ==
  [][(MergeStarts /\ Readable(hist))
       => /\ pc' = "write_tmp"
          /\ HasAllFlagCols(run'.content, designator.names)
          /\ \A i \in DOMAIN hist.rows :
                \A c \in designator.names \ hist.cols : run'.content.rows[i].flags[c] = 0]_vars

\* the operation, column and cutoff of the run that starts with this step
RunStarts == pc = "idle" /\ runs' = runs + 1
StartedOp == IF pc' = "idle" THEN done'.op ELSE run'.op
StartedCol == IF pc' = "idle" THEN done'.col ELSE run'.col
StartedCutoff == IF pc' = "idle" THEN done'.cutoff ELSE run'.cutoff

\* the reference ids of the batch file of column col that pass the date cutoff
BatchRefs(col, cutoff) ==
  {daily[col].rows[i].ref :
     i \in {n \in DOMAIN daily[col].rows : DateOf(daily[col].rows[n].ts) >= cutoff}}

\* no record whose reference id is in refs has column col at 0
NoneToFlag(rows, refs, col) ==
  \A i \in DOMAIN rows : rows[i].ref \in refs => rows[i].flags[col] = 1

\* C12: a reconcile run whose non-empty batch names no store record with the
\* target flag at 0 ends at once, reporting no new flag, with the store and
\* the temporary file untouched; a reconcile run that does start a write
\* writes a store that differs from the one it found.
C12_ReconcileSkip ==
  [][(RunStarts /\ StartedOp = "reconcile")
       => /\ ( /\ Readable(hist) /\ Readable(daily[StartedCol])
               /\ StartedCol \in hist.cols
               /\ BatchRefs(StartedCol, StartedCutoff) # {}
               /\ NoneToFlag(hist.rows, BatchRefs(StartedCol, StartedCutoff), StartedCol) )
             => (pc' = "idle" /\ log' = "no_new_flag" /\ done'.ok /\ hist' = hist /\ tmp' = tmp)
          /\ pc' # "idle" => run'.content # hist]_vars

\* a ccw reconcile run has just skipped: its batch names stored records and
\* all of them are flagged already
C12_Witness ==
  /\ family = "ccw"
  /\ pc = "idle"
  /\ done.op = "reconcile" /\ done.ok /\ ~done.wrote
  /\ log = "no_new_flag"
  /\ Readable(hist)
  /\ BatchRefs(done.col, done.cutoff) \cap RefsOf(hist.rows) # {}
  /\ NoneToFlag(hist.rows, BatchRefs(done.col, done.cutoff), done.col)

\* C13: an update_historical run on an existing store starts a write only
\* when the batch holds a record whose reference id the store does not hold.
C13_MergeNoOp ==
  [][(RunStarts /\ pc' # "idle" /\ run'.op = "merge" /\ Readable(hist))
       => ~is_empty(AntiJoin(run'.daily_df, hist.rows))]_vars

\* a stage ends with an error, in its first step or in a later one
StageFails == pc' = "idle" /\ done' # done /\ ~done'.ok /\ log' = "error"

\* the store the ending stage found when it started
StoreBeforeRun == IF pc = "idle" THEN hist ELSE run.pre

\* C14: whenever a merge, detect or reconcile stage ends with an error, the
\* store is exactly the store the stage found when it started.
C14_FailStop == [][StageFails => hist' = StoreBeforeRun]_vars

\* the same statement for the variants that write a temporary file first
C14_FailStopAtomic == [][(StageFails /\ family # "qr") => hist' = StoreBeforeRun]_vars

\* the second run renames while the first has ended with a write, or the
\* first renames while the second has; both had read the same store
PeerRenamesLast ==
  /\ peer.pc = "rename" /\ peer'.pc = "done"
  /\ pc = "idle" /\ done.op = "reconcile" /\ done.wrote
  /\ peer.pre # hist
RunRenamesLast ==
  /\ pc = "rename" /\ pc' = "idle" /\ done'.wrote
  /\ peer.pc = "done" /\ peer.wrote
  /\ run.pre = peer.pre

\* what a reconciliation of column col computes from the store it read
ResultOn(store, col) == File(store.cols, OrIsIn(store.rows, RefsOf(daily[col].rows), col))

\* C15: of two runs that read the same store and both rename, the store
\* after the second rename is what the second renamer computed from the
\* store it read; nothing of the first renamer's result is in it.
C15_LostUpdate ==
  [][/\ PeerRenamesLast => hist' = ResultOn(peer.pre, peer.col)
     /\ RunRenamesLast => hist' = ResultOn(run.pre, run.col)]_vars

\* both runs have renamed, for different rules, and a record that the
\* second process flagged carries flag 0 in the store: the rename of the
\* first process came last and discarded it
C15_Witness ==
  /\ pc = "idle" /\ done.op = "reconcile" /\ done.wrote
  /\ peer.pc = "done" /\ peer.wrote /\ peer.col # done.col
  /\ Readable(hist)
  /\ \E i \in DOMAIN hist.rows :
       /\ hist.rows[i].ref \in RefsOf(daily[peer.col].rows)
       /\ hist.rows[i].flags[peer.col] = 0

\* a detector run has ended without an error and no record qualified
NoneQualified ==
  /\ pc = "idle" /\ done.op = "detect" /\ done.ok
  /\ res.kind \in {"count", "sum"} /\ is_empty(res.out)

\* the batch at the output path of the rule is a file with no records
EmptyBatchAt(col) == Readable(daily[col]) /\ is_empty(daily[col].rows)

\* C16: after a detector run in which no record qualified, the daily flag
\* batch at the detector's output path exists and is empty.
C16_EmptyResult == NoneQualified => EmptyBatchAt(done.col)

\* the same statement for the tf_online detector alone
C16_EmptyResultTfOnline == (NoneQualified /\ family = "tf_online") => EmptyBatchAt(done.col)

\* a reconciliation run ends having written the store
ReconcileWrites == RunEnds /\ run.op = "reconcile" /\ done'.wrote

\* two rows agree in everything but the value of flag column col
SameButFlag(x, y, col) ==
  /\ x.ref = y.ref /\ x.acct = y.acct /\ x.ts = y.ts /\ x.amt = y.amt
  /\ DOMAIN x.flags = DOMAIN y.flags
  /\ \A c \in DOMAIN x.flags : c # col => x.flags[c] = y.flags[c]

\* C17: a reconciliation run that writes the store leaves, in every record,
\* every column but the flag column of its rule as it was before the run.
C17_ColumnIsolation ==
  [][ReconcileWrites
       => /\ hist'.cols = run.pre.cols
          /\ Len(hist'.rows) = Len(run.pre.rows)
          /\ \A i \in DOMAIN run.pre.rows :
               SameButFlag(run.pre.rows[i], hist'.rows[i], run.col)]_vars

\* a reconciliation has written a store with two flag columns, in which one
\* record carries both flags and another carries the flag of the run's rule
\* and not the other one
C17_Witness ==
  /\ pc = "idle" /\ done.op = "reconcile" /\ done.wrote /\ Readable(hist)
  /\ \E c \in hist.cols \ {done.col} : \E i, j \in DOMAIN hist.rows :
       /\ hist.rows[i].flags[done.col] = 1 /\ hist.rows[i].flags[c] = 1
       /\ hist.rows[j].flags[done.col] = 1 /\ hist.rows[j].flags[c] = 0

DetectStep ==
  \/ RunStarts /\ StartedOp = "detect"
  \/ pc # "idle" /\ run.op = "detect"

\* C20: no step of a flag_* detector run changes the file at hist_path.
C20_DetectorKeepsStore == [][DetectStep => hist' = hist]_vars

\* the amounts of the records of d inside the window of length L anchored at r
WindowSum(d, r, L) == SumAmt(SelectSeq(d, LAMBDA x : InsideWindow(x, r, L)))

\* C21: in a value-sum detector run the sum computed for a record r is the
\* sum of the amounts of the records of its account with timestamp after
\* r.timestamp - L and not after r.timestamp, and r is a trigger exactly
\* when that sum reaches the threshold.
C21_SumWindow ==
  res.kind = "sum" =>
    \A i \in DOMAIN res.d :
       /\ res.sums[res.d[i].ref] = WindowSum(res.d, res.d[i], res.W)
       /\ (<<res.d[i].acct, res.d[i].ref>> \in res.keys)
            <=> (WindowSum(res.d, res.d[i], res.W) >= res.T)

\* a merge ends well right after a merge that wrote the store from the same
\* incoming batch
SecondMergeEnds ==
  /\ MergeEnds
  /\ done.op = "merge" /\ done.ok /\ done.wrote
  /\ done.batch = run.daily_df

\* C22: a second update_historical with the same incoming batch leaves the
\* store with the records and flag values the first one left.
C22_MergeIdempotent == [][SecondMergeEnds => hist'.rows = run.pre.rows]_vars

\* two merges of the same batch of records have written one after the other,
\* the first onto a store that held a record already
C22_Witness ==
  /\ pc = "idle" /\ done.op = "merge" /\ done.ok /\ done.wrote
  /\ prev.op = "merge" /\ prev.ok /\ prev.wrote
  /\ prev.batch = done.batch /\ done.batch # <<>>
  /\ Readable(hist) /\ Len(hist.rows) > Len(done.batch)

\* the file at the path the run writes, after the step; the step changes it
TargetAfter == IF run.target = "hist" THEN hist' ELSE daily'[run.target]
DestinationChanges == pc # "idle" /\ TargetAfter # TargetFile(run.target)

\* C23: a run that writes through a temporary file changes its destination
\* only by the rename, the temporary file it renames lies in the directory
\* of that destination, and it is the file this run wrote.
C23_TempFile ==
  [][/\ (pc \in {"write_tmp", "rename"} /\ DestinationChanges)
          => (pc = "rename" /\ TargetAfter = tmp /\ tmp = run.content)
     /\ (pc = "rename" /\ pc' = "idle" /\ done'.wrote) => TmpDir = DestDir(run.target)]_vars

\* flag_col is a list of more than one column name
MultiColumn == designator.kind = "list" /\ Cardinality(designator.names) > 1

\* C24: update_flag with a list of more than one flag column ends in its
\* first step with an error and the store unchanged, whatever the batch file
\* and the store hold.
C24_MultiColumnRejected ==
  [][(/\ RunStarts /\ StartedOp = "reconcile" /\ MultiColumn
      /\ Readable(hist) /\ Readable(daily[StartedCol]))
       => (pc' = "idle" /\ ~done'.ok /\ hist' = hist /\ tmp' = tmp)]_vars

\* the same statement for the runs whose batch holds a record
C24_MultiColumnFails ==
  [][(/\ RunStarts /\ StartedOp = "reconcile" /\ MultiColumn
      /\ Readable(hist) /\ Readable(daily[StartedCol])
      /\ BatchRefs(StartedCol, StartedCutoff) # {})
       => (pc' = "idle" /\ ~done'.ok /\ hist' = hist /\ tmp' = tmp)]_vars

\* the reference ids of a file, in file order; none for a file that cannot
\* be read
RefSeq(f) == IF Readable(f) THEN [i \in DOMAIN f.rows |-> f.rows[i].ref] ELSE <<>>

\* a reconciliation run ends, in whatever way
ReconcileEnds == RunEnds /\ run.op = "reconcile"

\* C25: a reconciliation run leaves the store with the records it found:
\* the same reference ids, none added for a batch record the store lacks,
\* none removed.
C25_RecordSetKept ==
  [][ReconcileEnds => (Readable(hist') /\ RefSeq(hist') = RefSeq(run.pre))]_vars

\* the same statement for the runs that write the store to the end
C25_RecordSetKeptWritten ==
  [][ReconcileWrites => (Readable(hist') /\ RefSeq(hist') = RefSeq(run.pre))]_vars

\* a reconciliation has written a store that lacks a record of its batch
C25_Ignored ==
  /\ pc = "idle" /\ done.op = "reconcile" /\ done.wrote /\ Readable(hist)
  /\ BatchRefs(done.col, done.cutoff) \ RefsOf(hist.rows) # {}

\* the same statement for the variants that write a temporary file first
C25_RecordSetKeptAtomic ==
  [][(ReconcileEnds /\ family # "qr") => (Readable(hist') /\ RefSeq(hist') = RefSeq(run.pre))]_vars

\* update_flag has ended well right after a flag_ccw run that wrote its batch
PipelineEnded ==
  /\ family = "ccw" /\ pc = "idle"
  /\ done.op = "reconcile" /\ done.ok
  /\ prev.op = "detect" /\ prev.ok /\ prev.wrote

\* every record of the batch at output_path is in the store with flag_ccw = 1
BatchFlagged ==
  /\ Readable(hist) /\ Readable(daily["flag_ccw"])
  /\ \A r \in RefsOf(daily["flag_ccw"].rows) :
       /\ r \in RefsOf(hist.rows)
       /\ \A i \in DOMAIN hist.rows : hist.rows[i].ref = r => hist.rows[i].flags["flag_ccw"] = 1

\* C26: after update_historical, flag_ccw and update_flag have run in this
\* order and each has succeeded, every reference id flag_ccw put in the
\* daily flag batch carries flag_ccw = 1 in the store.
C26_Pipeline == PipelineEnded => BatchFlagged

\* the same statement when update_flag looks back at least as far as flag_ccw
C26_PipelineSameCutoff == (PipelineEnded /\ done.cutoff <= prev.cutoff) => BatchFlagged

\* the reference ids of the batch at the output path of a rule
RuleRefs(col) == IF Readable(daily[col]) THEN RefsOf(daily[col].rows) ELSE {}

\* the store after the rule of column a and then the rule of column b have
\* been applied to the store the first run found
AppliedInOrder(a, b) == OrIsIn(OrIsIn(hist0.rows, RuleRefs(a), a), RuleRefs(b), b)

\* the reconciliations of two different rules have run one after the other,
\* in either order, and both have succeeded
BothRulesRan ==
  /\ pc = "idle"
  /\ done.op = "reconcile" /\ done.ok
  /\ prev.op = "reconcile" /\ prev.ok
  /\ done.col # prev.col

ZeroFlags(rows) ==
  [i \in DOMAIN rows |-> [rows[i] EXCEPT !.flags = [c \in DOMAIN rows[i].flags |-> 0]]]

\* the frame the detector of the family computes on
Prepared(rows, cutoff) ==
  IF family = "ccw" THEN filter_date(rows, cutoff)
  ELSE IF family = "qr" THEN DropCols(rows, DROP_COLS)
  ELSE filter_date(SortByTs(DropCols(rows, DROP_COLS)), cutoff)

\* the reference ids a detector run with the parameters of r flags in frame d
FlaggedRefs(d, r) ==
  IF r.kind = "count" THEN RefsOf(UniqueByRef(CountBurst(d, r.W, r.T, r.M).marked))
  ELSE RefsOf(ValueBurst(d, r.W, r.T).flag_only)

\* a detector run starts on a readable store and computes a result
DetectComputes ==
  /\ RunStarts /\ StartedOp = "detect" /\ Readable(hist)
  /\ res'.kind \in {"count", "sum"}

\* C28: the reference ids a detector run flags are those it flags on the
\* store with the same records and every flag column at 0.
C28_FlagsIgnored ==
  [][DetectComputes
       => /\ res'.d = Prepared(hist.rows, StartedCutoff)
          /\ RefsOf(res'.out) = FlaggedRefs(Prepared(ZeroFlags(hist.rows), StartedCutoff), res')]_vars

\* a detector has flagged a record of a store in which a record carried a flag
C28_Witness ==
  /\ pc = "idle" /\ done.op = "detect" /\ done.ok /\ res.kind \in {"count", "sum"}
  /\ res.out # <<>>
  /\ \E i \in DOMAIN hist0.rows : \E c \in DOMAIN hist0.rows[i].flags :
       hist0.rows[i].flags[c] = 1

\* the early-hours detector starts on a readable store
EarlyStarts ==
  RunStarts /\ StartedOp = "detect" /\ StartedCol = "flag_50mio_early" /\ Readable(hist)

\* the records of the store inside the date cutoff and the hours lo..hi
InHours(rows, cutoff, lo, hi) ==
  {rows[i].ref : i \in {j \in DOMAIN rows : /\ DateOf(rows[j].ts) >= cutoff
                                            /\ lo <= HourOf(rows[j].ts)
                                            /\ HourOf(rows[j].ts) <= hi}}

\* C29: the early-hours rule computes on exactly the records not older than
\* the cutoff date whose hour lies between time_range_start and time_range_end.
C29_TimeOfDay ==
  [][EarlyStarts
       => RefsOf(res'.d) = InHours(hist.rows, StartedCutoff, hours.start, hours.end)]_vars

\* what the code does: the records of the hour time_range_start alone
C29_StartHourOnly ==
  [][EarlyStarts
       => RefsOf(res'.d) = InHours(hist.rows, StartedCutoff, hours.start, hours.start)]_vars

\* a run with time_range_start < time_range_end has flagged records
C29_Reached ==
  /\ pc = "idle" /\ done.op = "detect" /\ done.col = "flag_50mio_early" /\ done.ok
  /\ hours.start < hours.end
  /\ res.out # <<>>

\* a count-based run whose marking span equals its window has computed a result
SpanIsWindow == res.kind = "count" /\ res.M = res.W

\* record x lies in the counting window of burst point bp
Counted(x, bp) == x.acct = bp.acct /\ bp.ts - res.W < x.ts /\ x.ts <= bp.ts

\* record x lies exactly one window before burst point bp
OnEdge(x, bp) == x.acct = bp.acct /\ x.ts = bp.ts - res.W

\* C30: with the marking span equal to the window, every flagged record lies
\* in the counting window of some burst point of its account.
C30_MarkedWereCounted ==
  SpanIsWindow
    => \A i \in DOMAIN res.out : \E k \in DOMAIN res.bursts : Counted(res.out[i], res.bursts[k])

\* C30 as amended: with the marking span equal to the window, every flagged
\* record lies in the counting window of some burst point of its account or
\* exactly one window before it, and every record of the frame counted
\* towards a burst point or exactly one window before it is flagged.
C30_MarkedCountedOrOnEdge ==
  SpanIsWindow
    => /\ \A i \in DOMAIN res.out : \E k \in DOMAIN res.bursts :
            Counted(res.out[i], res.bursts[k]) \/ OnEdge(res.out[i], res.bursts[k])
       /\ \A n \in DOMAIN res.d : \A k \in DOMAIN res.bursts :
            Counted(res.d[n], res.bursts[k]) \/ OnEdge(res.d[n], res.bursts[k])
              => res.d[n].ref \in RefsOf(res.out)

\* a flagged record that no burst point counted: it is one window before one
C30_Witness ==
  /\ SpanIsWindow
  /\ \E i \in DOMAIN res.out :
       /\ \E k \in DOMAIN res.bursts : OnEdge(res.out[i], res.bursts[k])
       /\ \A k \in DOMAIN res.bursts : ~Counted(res.out[i], res.bursts[k])

====
